---- MODULE Spec2Model ----
(***************************************************************************)
(* Model of update_libraries.py (UpdateLibraries v. 1.3.0): the update     *)
(* pass, the unlink pass, the link pass and the saving of linkinfo.ini,    *)
(* over a file system with directories, regular files and symbolic links.  *)
(*                                                                         *)
(* A path is a sequence of components, a component is a sequence of        *)
(* one-character strings; an absolute path starts with the component "/".  *)
(* An intermediate result that is used more than once is handed on as an   *)
(* operator argument, so an operator of the program is a chain of          *)
(* definitions that follows the statements of its code.                    *)
(***************************************************************************)
EXTENDS Integers, Sequences, FiniteSets, TLC

\* ------------------------------------------------------------------ bounds
MaxRuns == 2        \* runs of the tool in one behaviour
MaxLibs == 2        \* libraries in one configuration file
MaxPairs == 2       \* link pairs of one library
MaxFollow == 2      \* symbolic links followed while resolving one path
MaxKeyLen == 3      \* length of the namespace keys drawn for the normalisation

\* ------------------------------------------------------------------- paths
Sl == <<"/">>
Dot == <<".">>
Root == <<Sl>>
Fail == << <<"!">> >>

IsAbs(p) == Len(p) > 0 /\ p[1] = Sl

\* os.path.join(a, b)
Join(a, b) == IF IsAbs(b) THEN b ELSE a \o b

\* os.path.dirname(p)
Dirname(p) == IF Len(p) = 0 THEN p ELSE SubSeq(p, 1, Len(p) - 1)

\* os.path.abspath(p) for a path without ".." components
RECURSIVE DropDots(_)
DropDots(p) ==
    IF p = <<>> THEN <<>>
    ELSE IF Head(p) = Dot THEN DropDots(Tail(p))
    ELSE <<Head(p)>> \o DropDots(Tail(p))

Abspath(cwd, p) == DropDots(Join(cwd, p))

\* ------------------------------------------------------------- file system
\* A file system maps the physical paths that exist to what is there.
DirE == [k |-> "dir", t |-> <<>>]
FileE == [k |-> "file", t |-> <<>>]
LinkE(target) == [k |-> "link", t |-> target]

\* The kernel's path walk: cur is the directory reached, rest the components
\* left. The result is the physical path named (which may not exist when only
\* its last component is missing), or Fail (ENOENT, ENOTDIR, ELOOP).
RECURSIVE Walk(_, _, _, _, _)
Walk(f, cur, rest, follow, fuel) ==
    IF rest = <<>> THEN cur
    ELSE IF cur \notin DOMAIN f \/ f[cur].k # "dir" THEN Fail
    ELSE IF Head(rest) = Dot THEN Walk(f, cur, Tail(rest), follow, fuel)
    ELSE IF Append(cur, Head(rest)) \notin DOMAIN f
    THEN (IF Tail(rest) = <<>> THEN Append(cur, Head(rest)) ELSE Fail)
    ELSE IF f[Append(cur, Head(rest))].k = "link" /\ (Tail(rest) # <<>> \/ follow)
    THEN IF fuel = 0 THEN Fail
         ELSE IF IsAbs(f[Append(cur, Head(rest))].t)
         THEN Walk(f, Root, Tail(f[Append(cur, Head(rest))].t) \o Tail(rest),
                   follow, fuel - 1)
         ELSE Walk(f, cur, f[Append(cur, Head(rest))].t \o Tail(rest), follow, fuel - 1)
    ELSE Walk(f, Append(cur, Head(rest)), Tail(rest), follow, fuel)

Phys(f, cwd, p, follow) ==
    IF p = <<>> THEN Fail
    ELSE IF IsAbs(p) THEN Walk(f, Root, Tail(p), follow, MaxFollow)
    ELSE Walk(f, cwd, p, follow, MaxFollow)

\* What is at a physical path q
IsLinkAt(f, q) == q # Fail /\ q \in DOMAIN f /\ f[q].k = "link"
ExistsAt(f, q) == q # Fail /\ q \in DOMAIN f
IsDirAt(f, q) == q # Fail /\ q \in DOMAIN f /\ f[q].k = "dir"

\* os.path.islink, os.path.exists, os.path.isdir
IsLink(f, cwd, p) == IsLinkAt(f, Phys(f, cwd, p, FALSE))
Exists(f, cwd, p) == ExistsAt(f, Phys(f, cwd, p, TRUE))
IsDir(f, cwd, p) == IsDirAt(f, Phys(f, cwd, p, TRUE))

IsPrefix(q, x) == Len(x) >= Len(q) /\ SubSeq(x, 1, Len(q)) = q
Children(f, q) == {x \in DOMAIN f : Len(x) = Len(q) + 1 /\ IsPrefix(q, x)}
Under(f, q) == {x \in DOMAIN f : IsPrefix(q, x)}

Remove(f, S) == [x \in (DOMAIN f) \ S |-> f[x]]
Put(f, q, e) == [x \in (DOMAIN f) \cup {q} |-> IF x = q THEN e ELSE f[x]]

\* Each system call returns the new file system and whether it succeeded
\* (a failure is an OSError in Python).
Done(f) == [fs |-> f, ok |-> TRUE]
Failed(f) == [fs |-> f, ok |-> FALSE]

\* os.unlink(p)
UnlinkAt(f, q) ==
    IF q # Fail /\ q \in DOMAIN f /\ f[q].k # "dir" THEN Done(Remove(f, {q})) ELSE Failed(f)

OsUnlink(f, cwd, p) == UnlinkAt(f, Phys(f, cwd, p, FALSE))

\* os.symlink(target, p)
SymlinkAt(f, q, target) ==
    IF q # Fail /\ q \notin DOMAIN f THEN Done(Put(f, q, LinkE(target))) ELSE Failed(f)

OsSymlink(f, cwd, target, p) == SymlinkAt(f, Phys(f, cwd, p, FALSE), target)

\* os.mkdir(p)
MkdirAt(f, q) ==
    IF q # Fail /\ q \notin DOMAIN f THEN Done(Put(f, q, DirE)) ELSE Failed(f)

OsMkdir(f, cwd, p) == MkdirAt(f, Phys(f, cwd, p, FALSE))

\* os.rmdir(p): only an empty directory, never through a symbolic link
RmdirAt(f, q) ==
    IF q # Fail /\ q # Root /\ q \in DOMAIN f /\ f[q].k = "dir" /\ Children(f, q) = {}
    THEN Done(Remove(f, {q}))
    ELSE Failed(f)

OsRmdir(f, cwd, p) == RmdirAt(f, Phys(f, cwd, p, FALSE))

\* os.makedirs(name): create the missing ancestors, then the leaf. An EEXIST
\* of the recursive call is swallowed and any other error re-raised; in both
\* cases the leaf's mkdir fails as well, so one ok flag carries the outcome.
MakeLeaf(r, cwd, name) ==
    IF name[Len(name)] = Dot THEN r ELSE OsMkdir(r.fs, cwd, name)

RECURSIVE OsMakedirs(_, _, _)
OsMakedirs(f, cwd, name) ==
    IF Len(Dirname(name)) > 0 /\ ~Exists(f, cwd, Dirname(name))
    THEN MakeLeaf(OsMakedirs(f, cwd, Dirname(name)), cwd, name)
    ELSE OsMkdir(f, cwd, name)

\* os.removedirs(name): rmdir the leaf, then every parent up the chain until
\* one rmdir fails. The caller swallows the OSError of the leaf.
RECURSIVE OsRemovedirs(_, _, _)
RemoveUp(r, cwd, name) ==
    IF r.ok THEN OsRemovedirs(r.fs, cwd, Dirname(name)) ELSE r.fs

OsRemovedirs(f, cwd, name) ==
    IF Len(name) = 0 THEN f ELSE RemoveUp(OsRmdir(f, cwd, name), cwd, name)

\* os.system("rm -rf %s" % path): the tree at path, not followed through a
\* symbolic link at path itself
RmRfAt(f, q) == IF q # Fail /\ q # Root THEN Remove(f, Under(f, q)) ELSE f

RmRf(f, cwd, p) == RmRfAt(f, Phys(f, cwd, p, FALSE))

\* ----------------------------------------------------------------- strings
\* A string of the program is a sequence of one-character strings.
Lowers == {"a", "b", "c", "d", "e", "f", "g", "h", "i", "j", "k", "l", "m",
           "n", "o", "p", "q", "r", "s", "t", "u", "v", "w", "x", "y", "z"}
Uppers == {"A", "B", "C", "D", "E", "F", "G", "H", "I", "J", "K", "L", "M",
           "N", "O", "P", "Q", "R", "S", "T", "U", "V", "W", "X", "Y", "Z"}
Digits == {"0", "1", "2", "3", "4", "5", "6", "7", "8", "9"}

\* The characters the regular expression \w matches; \W matches the others.
WordChars == Lowers \cup Uppers \cup Digits \cup {"_"}

\* str.lower() on the letters that occur in the model's library types
LowerChar(c) ==
    CASE c = "G" -> "g"
      [] c = "R" -> "r"
      [] c = "S" -> "s"
      [] c = "B" -> "b"
      [] OTHER -> c

Lower(s) == [i \in 1..Len(s) |-> LowerChar(s[i])]

\* A substitution that replaces every maximal run of non-word characters by
\* one filler character, as re.compile("\W+").sub("_", library_name) would.
RECURSIVE SkipNonWord(_)
SkipNonWord(s) ==
    IF s = <<>> \/ Head(s) \in WordChars THEN s ELSE SkipNonWord(Tail(s))

RECURSIVE SubNonWordRuns(_)
SubNonWordRuns(s) ==
    IF s = <<>> THEN <<>>
    ELSE IF Head(s) \in WordChars THEN <<Head(s)>> \o SubNonWordRuns(Tail(s))
    ELSE <<"_">> \o SubNonWordRuns(SkipNonWord(Tail(s)))

\* re.compile("\W").sub("_", library_name)
SubNonWord(s) == [i \in 1..Len(s) |-> IF s[i] \in WordChars THEN s[i] ELSE "_"]

\* url.startswith("http")
StartsWithHttp(u) == Len(u) >= 4 /\ SubSeq(u, 1, 4) = <<"h", "t", "t", "p">>

\* --------------------------------------------------------------- providers
\* A template "pre%spost" is the pair of what stands before and after %s.
Tpl(pre, post) == [pre |-> pre, post |-> post]
Render(tpl, x) == tpl.pre \o x \o tpl.post

RepoKey == <<"r", "e", "p", "o">>
GithubKey == <<"g", "i", "t", "h", "u", "b">>
GitoriousKey == <<"g", "i", "t", "o", "r", "i", "o", "u", "s">>
BitbucketKey == <<"b", "i", "t", "b", "u", "c", "k", "e", "t">>

PROVIDERS ==
    (GithubKey :> [path_prefix |-> Tpl(<<"h", "t", "t", "p", "s", ":", "/", "/", "g", "i", "t", "h", "u", "b", ".", "c", "o", "m", "/">>, <<>>),
                   tarball_path |-> Tpl(<<"/", "t", "a", "r", "b", "a", "l", "l", "/">>, <<>>),
                   zipball_path |-> Tpl(<<"/", "z", "i", "p", "b", "a", "l", "l", "/">>, <<>>)])
    @@ (GitoriousKey :> [path_prefix |-> Tpl(<<"h", "t", "t", "p", ":", "/", "/", "g", "i", "t", "o", "r", "i", "o", "u", "s", ".", "o", "r", "g", "/">>, <<>>),
                         tarball_path |-> Tpl(<<"/", "a", "r", "c", "h", "i", "v", "e", "-", "t", "a", "r", "b", "a", "l", "l", "/">>, <<>>)])
    @@ (BitbucketKey :> [path_prefix |-> Tpl(<<"h", "t", "t", "p", "s", ":", "/", "/", "b", "i", "t", "b", "u", "c", "k", "e", "t", ".", "o", "r", "g", "/">>, <<>>),
                         tarball_path |-> Tpl(<<"/", "g", "e", "t", "/">>, <<".", "t", "a", "r", ".", "g", "z">>),
                         zipball_path |-> Tpl(<<"/", "g", "e", "t", "/">>, <<".", "z", "i", "p">>)])

\* ----------------------------------------------------------- configuration
\* An option a section does not have.
Absent == <<"-">>

\* A library (one section of the configuration file): its options type, url,
\* tag and branch, and its link_from[.N] / link_to[.N] options in file order.
Library(type, url, tag, branch, links) ==
    [type |-> type, url |-> url, tag |-> tag, branch |-> branch, links |-> links]

LinkPair(from, to) == [from |-> from, to |-> to]

\* _type(library)
Type(lib) == Lower(lib.type)

\* _tag_or_branch(library): config.get raises NoOptionError for a missing branch
HasVersion(lib) == lib.tag # Absent \/ lib.branch # Absent
TagOrBranch(lib) == IF lib.tag # Absent THEN lib.tag ELSE lib.branch

\* _get_links(library): one (from_key, to_key) pair per link_from option, in
\* option order; the pair is represented by the values the two keys name.
GetLinks(lib) == lib.links

\* _extdir_from_library(library): PROVIDERS[repo_type] raises KeyError for a
\* type that is neither "repo" nor a provider
KnownType(lib) == Type(lib) = RepoKey \/ Type(lib) \in DOMAIN PROVIDERS

LibraryName(lib) ==
    IF Type(lib) = RepoKey THEN lib.url
    ELSE Render(PROVIDERS[Type(lib)].path_prefix, lib.url)

ExtdirFromLibrary(extroot, lib) == Join(extroot, <<SubNonWord(LibraryName(lib))>>)

\* _linkinfo_file()
LinkinfoName == <<"l", "i", "n", "k", "i", "n", "f", "o", ".", "i", "n", "i">>
LinkinfoFile(extroot) == Join(extroot, <<LinkinfoName>>)

\* ------------------------------------------------------------- update pass
\* _message(message): printed unless --very-quiet; a message is modelled by
\* the name of the place that prints it.
Message(args, out, m) == IF args.very_quiet THEN out ELSE Append(out, m)

\* The content a successful clone or archive extraction leaves in a checkout.
SubName == <<"s", "u", "b">>

\* os.system(cmd) of a clone, fetch or tarball command, run in the namespace
\* directory: the exit status is never inspected; a command that succeeds
\* leaves the library's content in the version directory. The zipball command
\* pipes the archive into "xargs -0 unzip", which extracts nothing there.
RunFetch(f, cwd, subdir, kind, sysok) ==
    IF sysok /\ kind # "zipball" THEN OsMkdir(f, cwd, <<subdir, SubName>>).fs ELSE f

\* _ensure_dir(library, subdir), statement by statement.
\* os.chdir(extdir) and the value returned
EnsureDirChdir(cwd, out, extdir, path, existed, create, mk) ==
    [fs |-> mk.fs,
     cwd |-> IF mk.ok /\ IsDir(mk.fs, cwd, extdir)
             THEN Phys(mk.fs, cwd, extdir, TRUE) ELSE cwd,
     out |-> out,
     existed |-> existed,
     create |-> create,
     dir |-> Phys(mk.fs, cwd, path, TRUE),
     ok |-> mk.ok /\ IsDir(mk.fs, cwd, extdir)]

\* A faulty variant of the statement below, in which --force is ignored and
\* an existing version directory is always kept.
EnsureDirKeepsExisting(args, f, cwd, out, extdir, path, existed) ==
    EnsureDirChdir(cwd,
                   IF existed THEN Message(args, out, "exists") ELSE out,
                   extdir, path, existed, ~existed,
                   IF existed THEN Done(f) ELSE OsMakedirs(f, cwd, path))

\* if os.path.exists(path): rm -rf when forced; if create: os.makedirs(path)
EnsureDirCreate(args, f, cwd, out, extdir, path, existed) ==
    EnsureDirChdir(cwd,
                   IF existed
                   THEN Message(args, out, IF args.force THEN "removing" ELSE "exists")
                   ELSE out,
                   extdir, path, existed, ~(existed /\ ~args.force),
                   IF existed /\ ~args.force THEN Done(f)
                   ELSE IF existed THEN OsMakedirs(RmRf(f, cwd, path), cwd, path)
                   ELSE OsMakedirs(f, cwd, path))

EnsureDirPath(args, f, cwd, out, extdir, path) ==
    EnsureDirCreate(args, f, cwd, out, extdir, path, Exists(f, cwd, path))

EnsureDir(args, f, cwd, out, lib, subdir) ==
    EnsureDirPath(args, f, cwd, out, ExtdirFromLibrary(args.extroot, lib),
                  Join(ExtdirFromLibrary(args.extroot, lib), <<subdir>>))

\* _check_url(url); status is the status code the server reports for url
NoUrl == <<>>
CheckUrl(url, status) ==
    IF url = NoUrl THEN FALSE
    ELSE IF ~StartsWithHttp(url) THEN TRUE
    ELSE 200 <= status /\ status < 400

\* What the pass did for one library: the kind of library, what _ensure_dir
\* found and did, whether the archive urls were checked, the command run, the
\* diagnostic printed in place of a fetch, and the exception raised.
LogEntry(kind, ed, checked, fetched, diag, exc) ==
    [kind |-> kind, existed |-> ed.existed, create |-> ed.create, dir |-> ed.dir,
     cd |-> ed.cwd, checked |-> checked, fetched |-> fetched, diag |-> diag,
     exc |-> exc]

NoDir == [existed |-> FALSE, create |-> FALSE, dir |-> Fail, cwd |-> Fail]

\* _check_and_run_cmd(cmd, msg): cmd is the kind of command built, "" for none
CheckAndRunCmd(args, st, ed, subdir, logkind, checked, cmd, sysok) ==
    IF cmd # ""
    THEN [fs |-> RunFetch(ed.fs, ed.cwd, subdir, cmd, sysok),
          cwd |-> ed.cwd,
          out |-> Message(args, ed.out, "running"),
          log |-> Append(st.log, LogEntry(logkind, ed, checked, cmd, "", "none")),
          raised |-> "none"]
    ELSE [fs |-> ed.fs,
          cwd |-> ed.cwd,
          out |-> Message(args, ed.out, "no_such_url"),
          log |-> Append(st.log, LogEntry(logkind, ed, checked, "none", "no_such_url", "none")),
          raised |-> "none"]

Raise(st, ed, logkind, checked, exc) ==
    [fs |-> ed.fs, cwd |-> ed.cwd, out |-> ed.out,
     log |-> Append(st.log, LogEntry(logkind, ed, checked, "none", "", exc)),
     raised |-> exc]

\* _fetch_from_repo(library, tag_or_branch) after _ensure_dir returned ed
RepoCmd(args, st, ed, tob, e) ==
    IF ~ed.ok THEN Raise(st, ed, "repo", FALSE, "OSError")
    ELSE CheckAndRunCmd(args, st, ed, tob, "repo", FALSE,
                        IF ed.create THEN "clone" ELSE "update", e.sys)

FetchFromRepo(args, st, lib, tob, e) ==
    RepoCmd(args, st, EnsureDir(args, st.fs, st.cwd, st.out, lib, tob), tob, e)

\* The archive urls of _fetch_from_provider: None for a missing template
TarballUrl(data, path_slice, tob) ==
    IF "tarball_path" \in DOMAIN data
    THEN Render(data.path_prefix, path_slice) \o Render(data.tarball_path, tob)
    ELSE NoUrl

ZipballUrl(data, path_slice, tob) ==
    IF "zipball_path" \in DOMAIN data
    THEN Render(data.path_prefix, path_slice) \o Render(data.zipball_path, tob)
    ELSE NoUrl

\* _fetch_from_provider(library, tag_or_branch, provider) after _ensure_dir
\* returned ed: cmd and ball_type are assigned only in the two branches of
\* the url check, so the call of _check_and_run_cmd raises UnboundLocalError
\* when neither url is valid.
ProviderCmd(args, st, ed, tob, url_tarball, url_zipball, e) ==
    IF ~ed.ok THEN Raise(st, ed, "provider", FALSE, "OSError")
    ELSE IF ~ed.create
    THEN [fs |-> ed.fs, cwd |-> ed.cwd, out |-> ed.out,
          log |-> Append(st.log, LogEntry("provider", ed, FALSE, "none", "", "none")),
          raised |-> "none"]
    ELSE IF CheckUrl(url_tarball, e.tar)
    THEN CheckAndRunCmd(args, st, ed, tob, "provider", TRUE, "tarball", e.sys)
    ELSE IF CheckUrl(url_zipball, e.zip)
    THEN CheckAndRunCmd(args, st, ed, tob, "provider", TRUE, "zipball", e.sys)
    ELSE Raise(st, ed, "provider", TRUE, "UnboundLocalError")

FetchFromProvider(args, st, lib, tob, provider, e) ==
    ProviderCmd(args, st, EnsureDir(args, st.fs, st.cwd, st.out, lib, tob), tob,
                TarballUrl(PROVIDERS[provider], lib.url, tob),
                ZipballUrl(PROVIDERS[provider], lib.url, tob), e)

\* The body of the loop of _do_update for one library; e is what the network
\* and the shell answer while this library is fetched.
UpdateLib(args, st, lib, e) ==
    IF ~HasVersion(lib)
    THEN [st EXCEPT !.raised = "NoOptionError",
                    !.log = Append(st.log, LogEntry("noversion", NoDir, FALSE, "none",
                                                    "", "NoOptionError"))]
    ELSE IF Type(lib) = RepoKey
    THEN FetchFromRepo(args, st, lib, TagOrBranch(lib), e)
    ELSE IF Type(lib) \in DOMAIN PROVIDERS
    THEN FetchFromProvider(args, st, lib, TagOrBranch(lib), Type(lib), e)
    ELSE [st EXCEPT !.out = Message(args, st.out, "unknown_type"),
                    !.log = Append(st.log, LogEntry("unknown", NoDir, FALSE, "none",
                                                    "unknown_type", "none"))]

\* _do_update(): the libraries in configuration order; an exception ends the
\* pass where it is raised, before os.chdir(curdir).
RECURSIVE UpdateFrom(_, _, _, _, _)
UpdateFrom(args, cfg, env, i, st) ==
    IF i > Len(cfg) \/ st.raised # "none" THEN st
    ELSE UpdateFrom(args, cfg, env, i + 1, UpdateLib(args, st, cfg[i], env[i]))

RestoreCwd(st, curdir) == IF st.raised = "none" THEN [st EXCEPT !.cwd = curdir] ELSE st

UpdatePass(args, cfg, env, f, curdir) ==
    RestoreCwd(UpdateFrom(args, cfg, env, 1,
                          [fs |-> f, cwd |-> curdir, out |-> <<>>, log |-> <<>>,
                           raised |-> "none"]),
               curdir)

\* ------------------------------------------------------------- unlink pass
\* The link registry keeps, for the section of the project root, the recorded
\* destinations under the keys "1", "2", ...: a sequence.
NoSection == [has |-> FALSE, items |-> <<>>]

\* A faulty variant of the loop body below, which unlinks whatever is at the
\* recorded path without asking whether it is a symlink.
UnlinkOneUnchecked(f, cwd, link) ==
    OsRemovedirs(OsUnlink(f, cwd, link).fs, cwd, Dirname(link))

\* The body of the loop of _do_unlink() for one recorded link
UnlinkOne(f, cwd, link) ==
    OsRemovedirs(IF IsLink(f, cwd, link) THEN OsUnlink(f, cwd, link).fs ELSE f,
                 cwd, Dirname(link))

RECURSIVE UnlinkFrom(_, _, _, _)
UnlinkFrom(f, cwd, items, i) ==
    IF i > Len(items) THEN f
    ELSE UnlinkFrom(UnlinkOne(f, cwd, items[i]), cwd, items, i + 1)

\* _do_unlink()
UnlinkPass(f, cwd, li) ==
    IF li.has
    THEN [fs |-> UnlinkFrom(f, cwd, li.items, 1), li |-> NoSection]
    ELSE [fs |-> f, li |-> li]

\* --------------------------------------------------------------- link pass
\* The body of the inner loop of _do_link() for one link pair, statement by
\* statement. The record in self.linkinfo
LinkRecord(args, st, cwd, link_to, make, sl) ==
    IF ~sl.ok
    THEN [st EXCEPT !.fs = sl.fs, !.raised = "OSError",
                    !.out = Message(args, st.out, "symlink")]
    ELSE [fs |-> sl.fs,
          li |-> [has |-> TRUE, items |-> Append(st.li.items, Abspath(cwd, link_to))],
          out |-> Message(args, st.out, "symlink"),
          made |-> IF make THEN st.made \cup {Abspath(cwd, link_to)} ELSE st.made,
          raised |-> "none"]

\* if not os.path.exists(link_to): os.symlink(link_from, link_to)
LinkCreate(args, st, cwd, link_from, link_to, f1) ==
    LinkRecord(args, st, cwd, link_to, ~Exists(f1, cwd, link_to),
               IF ~Exists(f1, cwd, link_to)
               THEN OsSymlink(f1, cwd, link_from, link_to)
               ELSE Done(f1))

\* if os.path.islink(link_to): os.unlink(link_to)
LinkReplace(args, st, cwd, link_from, link_to, mk) ==
    IF ~mk.ok THEN [st EXCEPT !.fs = mk.fs, !.raised = "OSError"]
    ELSE LinkCreate(args, st, cwd, link_from, link_to,
                    IF IsLink(mk.fs, cwd, link_to)
                    THEN OsUnlink(mk.fs, cwd, link_to).fs
                    ELSE mk.fs)

\* if not os.path.isdir(os.path.dirname(link_to)): os.makedirs(...)
LinkAt(args, st, cwd, link_from, link_to) ==
    LinkReplace(args, st, cwd, link_from, link_to,
                IF ~IsDir(st.fs, cwd, Dirname(link_to))
                THEN OsMakedirs(st.fs, cwd, Dirname(link_to))
                ELSE Done(st.fs))

LinkOne(args, st, cwd, lib, pair) ==
    IF ~KnownType(lib) THEN [st EXCEPT !.raised = "KeyError"]
    ELSE IF ~HasVersion(lib) \/ pair.to = Absent
    THEN [st EXCEPT !.raised = "NoOptionError"]
    ELSE LinkAt(args, st, cwd,
                Join(Join(ExtdirFromLibrary(args.extroot, lib), <<TagOrBranch(lib)>>),
                     pair.from),
                Join(args.libroot, pair.to))

RECURSIVE LinkPairsFrom(_, _, _, _, _, _)
LinkPairsFrom(args, st, cwd, lib, links, j) ==
    IF j > Len(links) \/ st.raised # "none" THEN st
    ELSE LinkPairsFrom(args, LinkOne(args, st, cwd, lib, links[j]), cwd, lib, links, j + 1)

RECURSIVE LinkFrom(_, _, _, _, _)
LinkFrom(args, cfg, cwd, i, st) ==
    IF i > Len(cfg) \/ st.raised # "none" THEN st
    ELSE LinkFrom(args, cfg, cwd, i + 1,
                  LinkPairsFrom(args, st, cwd, cfg[i], GetLinks(cfg[i]), 1))

\* _do_link()
LinkPass(args, cfg, f, cwd, li) ==
    LinkFrom(args, cfg, cwd, 1,
             [fs |-> f, li |-> li, out |-> <<>>, made |-> {}, raised |-> "none"])

\* ------------------------------------------------------------------- world
\* The directory the tool is started in, the storage root (EXTLIBS_ROOT) given
\* as an absolute or as a relative path, and the project root (--libroot).
StartCwd == <<Sl, <<"w">>>>
ExtAbs == <<Sl, <<"w">>, <<"e", "x", "t">>>>
ExtRel == <<<<"e", "x", "t">>>>
ExtNoDir == <<Sl, <<"w">>, <<"n", "o">>>>
NoRoot == <<>>
LibRoot == <<Sl, <<"w">>, <<"u">>, <<"p">>>>

\* Destinations (link_to values) and sources (link_from values)
ToA == <<<<"a">>>>
ToAB == <<<<"a">>, <<"b">>>>
ToC == <<<<"c">>>>
FromDot == <<Dot>>
FromSub == <<SubName>>

Dirs(S) == [x \in S |-> DirE]
BaseFs == Dirs({Root, StartCwd, ExtAbs, Dirname(LibRoot), LibRoot})

\* ------------------------------------------------------------------- state
VARIABLES
    pc,         \* where the process is: idle, update, unlink, link, exit, ended
    run,        \* runs started so far
    args,       \* self.args
    config,     \* self.config: the libraries in file order
    loaded,     \* self.linkinfo is not None
    linkinfo,   \* self.linkinfo: the section of the project root
    fs,         \* the file system
    cwd,        \* the process's working directory
    disk,       \* the registry files written, by physical path
    raised,     \* the exception that ended the run, "none" if none did
    updLog,     \* what the update pass did for each library it got to
    net,        \* what the network and the shell answered for each library
    out,        \* the messages printed
    writes,     \* the registry files this run wrote, in order
    linked,     \* the link pass of this run ran to completion
    made,       \* destinations at which a link pass created a symlink
    before,     \* the file system when the current run started
    first,      \* the outcome of the first of two link passes in a row
    key,        \* a namespace key given to the normalisation
    name        \* the directory name computed from key

runVars == <<pc, run, args, config, loaded, linkinfo, fs, cwd, disk, raised,
             updLog, net, out, writes, linked, made, before>>
runVarsButPc == <<run, args, config, loaded, linkinfo, fs, cwd, disk, raised,
                  updLog, net, out, writes, linked, made, before>>
vars == <<runVars, first, key, name>>

NoArgs == [extroot |-> NoRoot, libroot |-> LibRoot, force |-> FALSE,
           update |-> FALSE, link |-> FALSE, very_quiet |-> FALSE]

Arguments(extroot, force, update, link) ==
    [extroot |-> extroot, libroot |-> LibRoot, force |-> force,
     update |-> update, link |-> link, very_quiet |-> FALSE]

NoFirst == [fs |-> <<>>, raised |-> "none"]

InitState(p, a, c, f) ==
    /\ pc = p
    /\ run = 0
    /\ args = a
    /\ config = c
    /\ loaded = (a # NoArgs)
    /\ linkinfo = NoSection
    /\ fs = f
    /\ cwd = StartCwd
    /\ disk = <<>>
    /\ raised = "none"
    /\ updLog = <<>>
    /\ net = <<>>
    /\ out = <<>>
    /\ writes = <<>>
    /\ linked = FALSE
    /\ made = {}
    /\ before = f
    /\ first = NoFirst
    /\ key = <<>>
    /\ name = <<>>

\* No process has been started yet.
InitWith(f) == InitState("idle", NoArgs, <<>>, f)

\* run() after _args(): the first pass the flags enable
AfterArgs(a) == IF a.update THEN "update" ELSE IF a.link THEN "unlink" ELSE "exit"

\* SafeConfigParser.read(_linkinfo_file()): a file that cannot be read is skipped
ReadAt(d, q) == IF q \in DOMAIN d THEN d[q] ELSE NoSection
ReadLinkinfo(f, d, wd, extroot) == ReadAt(d, Phys(f, wd, LinkinfoFile(extroot), TRUE))

\* A new process: __init__() and _args() with the command line a and the
\* configuration file c. sys.exit() leaves self.linkinfo None.
Start(a, c) ==
    /\ run' = run + 1
    /\ args' = a
    /\ cwd' = StartCwd
    /\ before' = fs
    /\ updLog' = <<>>
    /\ net' = <<>>
    /\ out' = <<>>
    /\ writes' = <<>>
    /\ linked' = FALSE
    /\ IF a.extroot = NoRoot \/ ~IsDir(fs, StartCwd, a.extroot)
       THEN /\ pc' = "exit"
            /\ raised' = "SystemExit"
            /\ config' = <<>>
            /\ loaded' = FALSE
            /\ linkinfo' = NoSection
       ELSE /\ pc' = AfterArgs(a)
            /\ raised' = "none"
            /\ config' = c
            /\ loaded' = TRUE
            /\ linkinfo' = ReadLinkinfo(fs, disk, StartCwd, a.extroot)
    /\ UNCHANGED <<fs, disk, made, first, key, name>>

\* What the network and the shell answer while one library is fetched: the
\* status codes of the tarball and the zipball url, and whether the command
\* that os.system runs succeeds.
Envs == {[tar |-> 200, zip |-> 404, sys |-> TRUE],
         [tar |-> 404, zip |-> 301, sys |-> TRUE],
         [tar |-> 404, zip |-> 404, sys |-> FALSE]}

\* run(): if self.args.update: self._do_update()
DoUpdate ==
    /\ pc = "update"
    /\ \E env \in [1..Len(config) -> Envs] :
          \E r \in {UpdatePass(args, config, env, fs, cwd)} :
             /\ fs' = r.fs
             /\ cwd' = r.cwd
             /\ updLog' = r.log
             /\ net' = env
             /\ out' = r.out
             /\ raised' = r.raised
             /\ pc' = IF r.raised # "none" THEN "exit"
                      ELSE IF args.link THEN "unlink" ELSE "exit"
    /\ UNCHANGED <<run, args, config, loaded, linkinfo, disk, writes, linked, made,
                   before, first, key, name>>

\* run(): self._do_unlink()
DoUnlink ==
    /\ pc = "unlink"
    /\ \E r \in {UnlinkPass(fs, cwd, linkinfo)} :
          /\ fs' = r.fs
          /\ linkinfo' = r.li
    /\ pc' = "link"
    /\ UNCHANGED <<run, args, config, loaded, cwd, disk, raised, updLog, net, out,
                   writes, linked, made, before, first, key, name>>

\* run(): self._do_link()
DoLink ==
    /\ pc = "link"
    /\ \E r \in {LinkPass(args, config, fs, cwd, linkinfo)} :
          /\ fs' = r.fs
          /\ linkinfo' = r.li
          /\ out' = out \o r.out
          /\ raised' = r.raised
          /\ linked' = (r.raised = "none")
          /\ made' = made \cup r.made
    /\ pc' = "exit"
    /\ UNCHANGED <<run, args, config, loaded, cwd, disk, updLog, net, writes, before,
                   first, key, name>>

\* __del__() when the process ends: open(_linkinfo_file(), "w") resolves the
\* name against the working directory the process has then; when the open
\* fails, the finally clause raises in turn and nothing is written.
CanWrite(f, q) == q # Fail /\ (q \in DOMAIN f => f[q].k = "file")

Del ==
    /\ pc = "exit"
    /\ \E q \in {Phys(fs, cwd, LinkinfoFile(args.extroot), TRUE)} :
          IF loaded /\ CanWrite(fs, q)
          THEN /\ fs' = Put(fs, q, FileE)
               /\ disk' = Put(disk, q, linkinfo)
               /\ writes' = Append(writes, q)
          ELSE UNCHANGED <<fs, disk, writes>>
    /\ pc' = "ended"
    /\ UNCHANGED <<run, args, config, loaded, linkinfo, cwd, raised, updLog, net, out,
                   linked, made, before, first, key, name>>

\* ----------------------------------------------------- one run of the tool
UrlDJ == <<"d", "/", "j">>
UrlRepo == <<"g", ":", "r">>
TagV1 == <<"v", "1">>
BranchDev == <<"d", "e", "v">>

\* A provider library with a tag and one link pair
LibGithub == Library(<<"G", "i", "t", "h", "u", "b">>, UrlDJ, TagV1, Absent, <<LinkPair(FromDot, ToA)>>)
\* A provider without a zipball_path, with a branch only
LibGitorious == Library(<<"G", "i", "t", "o", "r", "i", "o", "u", "s">>, UrlDJ, Absent, BranchDev, <<>>)
\* A repository with a tag and a branch
LibRepo == Library(<<"R", "e", "p", "o">>, UrlRepo, TagV1, BranchDev, <<LinkPair(FromSub, ToC)>>)
\* A library of a type that is neither "repo" nor a provider
LibSvn == Library(<<"S", "v", "n">>, UrlDJ, TagV1, Absent, <<LinkPair(FromDot, ToC)>>)
\* A library with neither tag nor branch
LibNoVersion == Library(<<"G", "i", "t", "h", "u", "b">>, UrlDJ, Absent, Absent, <<>>)

RunLibs == {LibGithub, LibGitorious, LibRepo, LibSvn, LibNoVersion}
RunConfigs == UNION {[1..n -> RunLibs] : n \in 1..MaxLibs}

RunArgs == {Arguments(ExtAbs, FALSE, TRUE, TRUE),
            Arguments(ExtAbs, TRUE, TRUE, TRUE),
            Arguments(ExtRel, FALSE, TRUE, TRUE),
            Arguments(ExtAbs, FALSE, FALSE, TRUE),
            Arguments(ExtAbs, FALSE, TRUE, FALSE),
            Arguments(ExtNoDir, FALSE, TRUE, TRUE),
            Arguments(NoRoot, FALSE, TRUE, TRUE)}

\* The storage root after an earlier run fetched LibGithub
FetchedFs ==
    UpdatePass(Arguments(ExtAbs, FALSE, TRUE, FALSE), <<LibGithub>>,
               <<[tar |-> 200, zip |-> 404, sys |-> TRUE]>>, BaseFs, StartCwd).fs

StartRun ==
    /\ pc = "idle"
    /\ \E a \in RunArgs : \E c \in RunConfigs : Start(a, c)

Init == \E f \in {BaseFs, FetchedFs} : InitWith(f)

Next == StartRun \/ DoUpdate \/ DoUnlink \/ DoLink \/ Del

Spec == Init /\ [][Next]_vars

\* ------------------------------------------------ properties of one run
\* The update pass of this run is over.
UpdateEnded == loaded /\ args.update /\ pc \in {"unlink", "link", "exit", "ended"}

\* One of the archive urls of provider library lib answers as valid under e.
ArchiveValid(lib, e) ==
    \/ CheckUrl(TarballUrl(PROVIDERS[Type(lib)], lib.url, TagOrBranch(lib)), e.tar)
    \/ CheckUrl(ZipballUrl(PROVIDERS[Type(lib)], lib.url, TagOrBranch(lib)), e.zip)

\* The update pass went on after the i-th library.
WentOn(i) == i < Len(config) => Len(updLog) > i

\* The version directory of lib under the storage root as the path given for
\* the root resolves when the process starts, and its namespace directory.
NamespaceAtStart(lib) == Abspath(StartCwd, ExtdirFromLibrary(args.extroot, lib))
VersionDirAtStart(lib) == Join(NamespaceAtStart(lib), <<TagOrBranch(lib)>>)

\* The registry file under the storage root as resolved at process start.
RegistryAtStart == Abspath(StartCwd, LinkinfoFile(args.extroot))

\* C3: when the process ends, the link registry has been written exactly once,
\* to its file in the storage root, if it was loaded at start-up, whichever
\* way the run terminated; and not at all if start-up exited before loading.
C3_RegistryWrittenOnceAtEnd ==
    pc = "ended" =>
        IF loaded THEN writes = <<RegistryAtStart>> ELSE writes = <<>>

\* C5: a provider library whose directory was newly created and whose
\* tarball and zipball urls are both invalid is skipped with the diagnostic
\* that no valid url exists: nothing is fetched, no error is raised, and the
\* pass goes on with the next library.
C5_NoValidUrlSkipped ==
    UpdateEnded =>
        \A i \in DOMAIN updLog :
            (/\ updLog[i].kind = "provider"
             /\ updLog[i].create
             /\ updLog[i].exc # "OSError"
             /\ ~ArchiveValid(config[i], net[i]))
            => /\ updLog[i].exc = "none"
               /\ updLog[i].diag = "no_such_url"
               /\ updLog[i].fetched = "none"
               /\ WentOn(i)

\* Another failure than the one an unknown type can cause ended the run.
OtherFailure == raised \in {"SystemExit", "NoOptionError", "UnboundLocalError", "OSError"}

\* C6: a library of unknown type is logged and skipped, not fatal: the update
\* pass gets to every library, with linking enabled the unlink and link
\* passes run to completion, and the run ends normally.
C6_UnknownTypeNotFatal ==
    (/\ pc = "ended"
     /\ loaded
     /\ \E i \in DOMAIN config : ~KnownType(config[i])
     /\ ~OtherFailure)
    => /\ raised = "none"
       /\ args.update => Len(updLog) = Len(config)
       /\ args.link => linked

\* C7: a library with neither tag nor branch is reported with a diagnostic
\* and skipped, no error is raised, and the update pass goes on with the
\* next library.
C7_NoVersionRecoverable ==
    UpdateEnded =>
        \A i \in DOMAIN updLog :
            ~HasVersion(config[i])
            => /\ updLog[i].exc = "none"
               /\ updLog[i].diag # ""
               /\ WentOn(i)

\* C10: the directory the update pass creates or finds, and the directory it
\* enters, for a library are the version and namespace directories under the
\* storage root as resolved at process start, for a relative as for an
\* absolute root and whatever directories earlier libraries made it enter.
C10_DirUnderRootAtStart ==
    UpdateEnded =>
        \A i \in DOMAIN updLog :
            (updLog[i].kind \in {"repo", "provider"} /\ updLog[i].exc # "OSError")
            => /\ updLog[i].dir = VersionDirAtStart(config[i])
               /\ updLog[i].cd = NamespaceAtStart(config[i])

\* ------------------------------------------- the tool run again and again
\* Runs that update and link provider libraries under an absolute storage
\* root, without and with --force, each run starting from what the runs
\* before it left.
RerunConfigs == {<<LibGithub>>, <<LibGitorious>>, <<LibGithub, LibGitorious>>,
                 <<LibGithub, LibGithub>>}

RerunArgs == {Arguments(ExtAbs, FALSE, TRUE, TRUE), Arguments(ExtAbs, TRUE, TRUE, TRUE)}

StartRerun ==
    /\ pc \in {"idle", "ended"}
    /\ run < MaxRuns
    /\ \E a \in RerunArgs : \E c \in RerunConfigs : Start(a, c)

InitRerun == InitWith(BaseFs)

NextRerun == StartRerun \/ DoUpdate \/ DoUnlink \/ DoLink \/ Del

SpecRerun == InitRerun /\ [][NextRerun]_vars

\* The update pass has just ended, normally or by an exception.
JustUpdated ==
    \/ pc = "unlink"
    \/ pc = "exit" /\ updLog # <<>> /\ updLog[Len(updLog)].exc # "none"

\* The update pass handled the i-th library as a provider library.
ProviderEntry(i) == updLog[i].kind = "provider" /\ updLog[i].exc # "OSError"

\* The version directory of the i-th library was there when the pass got to
\* it: it was there when the run started, or an earlier library of the same
\* pass has the same directory.
WasThere(i) ==
    \/ ExistsAt(before, VersionDirAtStart(config[i]))
    \/ \E j \in 1..(i - 1) : VersionDirAtStart(config[j]) = VersionDirAtStart(config[i])

\* What is in and below directory d
Tree(f, d) == [x \in Under(f, d) |-> f[x]]

\* The fetch for the i-th library extracted the library's content.
Extracted(i) == updLog[i].fetched = "tarball" /\ net[i].sys

\* Destination to of the project root is a symlink to from.
LinkIs(f, from, to) ==
    /\ IsLinkAt(f, Join(LibRoot, to))
    /\ f[Join(LibRoot, to)].t = from

\* The source of link pair p of library lib, as _do_link builds it
LinkFromOf(lib, p) ==
    Join(Join(ExtdirFromLibrary(args.extroot, lib), <<TagOrBranch(lib)>>), p.from)

\* No pair configured after the k-th pair of the i-th library has its
\* destination.
LastFor(i, k) ==
    \A j \in DOMAIN config : \A m \in DOMAIN GetLinks(config[j]) :
        (j > i \/ (j = i /\ m > k)) => GetLinks(config[j])[m].to # GetLinks(config[i])[k].to

C4_RerunForced ==
    /\ pc = "unlink"
    /\ run = 2
    /\ args.force
    /\ \E i \in DOMAIN updLog :
          /\ ProviderEntry(i)
          /\ updLog[i].existed
          /\ Children(before, VersionDirAtStart(config[i])) # {}
          /\ updLog[i].fetched = "zipball"
          /\ Children(fs, VersionDirAtStart(config[i])) = {}

\* ------------------------------------------------- the namespace directory
\* _extdir_from_library applied to one library: a repository or a Github
\* library whose url is any short string over letters, the filler and
\* non-word characters, or the Github library dojo/dojo, under the root /ext.
ExtSlash == <<Sl, <<"e", "x", "t">>>>
NormChars == {"a", "_", "/", ":"}
NormUrls == UNION {[1..n -> NormChars] : n \in 1..MaxKeyLen}
UrlDojo == <<"d", "o", "j", "o", "/", "d", "o", "j", "o">>
LibDojo == Library(<<"G", "i", "t", "h", "u", "b">>, UrlDojo, TagV1, Absent, <<>>)
NormLibs ==
    {Library(t, u, TagV1, Absent, <<>>) : t \in {<<"R", "e", "p", "o">>, <<"G", "i", "t", "h", "u", "b">>}, u \in NormUrls}
        \cup {LibDojo}

InitNorm ==
    \E lib \in NormLibs :
        InitState("norm", Arguments(ExtSlash, FALSE, FALSE, FALSE), <<lib>>, BaseFs)

\* key is the library's name, name the directory computed for it
ExtdirOf ==
    /\ pc = "norm"
    /\ key' = LibraryName(config[1])
    /\ name' = ExtdirFromLibrary(args.extroot, config[1])
    /\ pc' = "named"
    /\ UNCHANGED <<runVarsButPc, first>>

NextNorm == ExtdirOf

SpecNorm == InitNorm /\ [][NextNorm]_vars

\* C8 as stated: the namespace directory is the storage root joined with the
\* key in which every maximal run of non-word characters is replaced by a
\* single filler character; for Github and dojo/dojo under /ext it is
\* /ext/https_github_com_dojo_dojo.
C8_RunsReplacedByOneFiller ==
    pc = "named" =>
        /\ name = Join(args.extroot, <<SubNonWordRuns(LibraryName(config[1]))>>)
        /\ config[1] = LibDojo => name = <<Sl, <<"e", "x", "t">>, <<"h", "t", "t", "p", "s", "_", "g", "i", "t", "h", "u", "b", "_", "c", "o", "m", "_", "d", "o", "j", "o", "_", "d", "o", "j", "o">>>>

\* C8, amended: the namespace directory is the storage root joined with the
\* key in which every single non-word character is replaced by one filler
\* character, so the name is as long as the key and a run of n non-word
\* characters becomes n fillers; for Github and dojo/dojo under /ext it is
\* /ext/https___github_com_dojo_dojo.
C8_EachNonWordCharReplaced ==
    pc = "named" =>
        /\ Len(name) = Len(args.extroot) + 1
        /\ SubSeq(name, 1, Len(args.extroot)) = args.extroot
        /\ Len(name[Len(name)]) = Len(LibraryName(config[1]))
        /\ \A i \in 1..Len(LibraryName(config[1])) :
              IF LibraryName(config[1])[i] \in WordChars
              THEN name[Len(name)][i] = LibraryName(config[1])[i]
              ELSE name[Len(name)][i] = "_"
        /\ config[1] = LibDojo => name = <<Sl, <<"e", "x", "t">>, <<"h", "t", "t", "p", "s", "_", "_", "_", "g", "i", "t", "h", "u", "b", "_", "c", "o", "m", "_", "d", "o", "j", "o", "_", "d", "o", "j", "o">>>>

\* The directory of a key with two non-word characters in a row was computed.
C8_RunOfNonWordNamed ==
    /\ pc = "named"
    /\ \E i \in 1..(Len(key) - 1) : key[i] \notin WordChars /\ key[i + 1] \notin WordChars
    /\ config[1].type = <<"R", "e", "p", "o">>

\* --------------------------------------------- link passes over many runs
\* Runs that only link (the checkout is in the storage root already): one
\* Github library whose link pairs change from run to run.
LinkPairs == {LinkPair(FromDot, ToA), LinkPair(FromSub, ToAB), LinkPair(FromDot, ToC)}
LinkLists == UNION {[1..n -> LinkPairs] : n \in 0..MaxPairs}
LinkLib(links) == Library(<<"G", "i", "t", "h", "u", "b">>, UrlDJ, TagV1, Absent, links)
LinkArgs == Arguments(ExtAbs, FALSE, FALSE, TRUE)

\* The project root is empty, or holds a regular file at destination c.
FileAtC == Put(FetchedFs, Join(LibRoot, ToC), FileE)
LinkWorlds == {FetchedFs, FileAtC}

StartLink ==
    /\ pc \in {"idle", "ended"}
    /\ run < MaxRuns
    /\ \E links \in LinkLists : Start(LinkArgs, <<LinkLib(links)>>)

InitLink == \E f \in LinkWorlds : InitWith(f)

NextLink == StartLink \/ DoUnlink \/ DoLink \/ Del

SpecLink == InitLink /\ [][NextLink]_vars

\* The destinations the configuration names, as absolute paths
Configured ==
    UNION {{Abspath(StartCwd, Join(LibRoot, GetLinks(config[i])[k].to)) :
               k \in DOMAIN GetLinks(config[i])} :
           i \in DOMAIN config}

\* The sources the configuration gives for destination d
SourcesFor(d) ==
    UNION {{LinkFromOf(config[i], GetLinks(config[i])[k]) :
               k \in {m \in DOMAIN GetLinks(config[i]) :
                         Abspath(StartCwd, Join(LibRoot, GetLinks(config[i])[m].to)) = d}} :
           i \in DOMAIN config}

\* Something that is no symlink is at path d.
Occupied(f, d) ==
    /\ ExistsAt(f, Phys(f, StartCwd, d, FALSE))
    /\ f[Phys(f, StartCwd, d, FALSE)].k # "link"

\* C1: at the end of every run whose link pass ran to completion, every
\* configured destination that no non-symlink occupies is a symlink to a
\* source configured for it, and no destination at which an earlier run
\* created and recorded a symlink, and which is no longer configured, is
\* still a symlink.
C1_LinksMirrorConfig ==
    (pc = "ended" /\ linked) =>
        /\ \A d \in Configured :
              \/ Occupied(fs, d)
              \/ /\ IsLink(fs, StartCwd, d)
                 /\ fs[Phys(fs, StartCwd, d, FALSE)].t \in SourcesFor(d)
        /\ \A d \in made : d \notin Configured => ~IsLink(fs, StartCwd, d)

\* The step of the unlink pass
UnlinkStep == pc = "unlink" /\ pc' = "link"

\* What the step removed
Removed == (DOMAIN fs) \ (DOMAIN fs')

\* The places of the recorded links, and the proper ancestors of the
\* recorded paths
RecordedPlaces == {Phys(fs, cwd, linkinfo.items[i], FALSE) : i \in DOMAIN linkinfo.items}
RecordedAncestors ==
    UNION {{SubSeq(linkinfo.items[i], 1, n) : n \in 1..(Len(linkinfo.items[i]) - 1)} :
           i \in DOMAIN linkinfo.items}

StrictlyBelow(q, x) == IsPrefix(q, x) /\ x # q

\* C9 as stated: the unlink pass removes only symlinks at recorded paths and
\* directories that are empty when removed and lie strictly below the
\* project root; never a regular file, a non-empty directory, the project
\* root or a directory above it. Nothing else changes.
C9_RemovesOnlyBelowRoot ==
    [][UnlinkStep =>
          /\ \A x \in DOMAIN fs' : x \in DOMAIN fs /\ fs'[x] = fs[x]
          /\ \A x \in Removed :
                \/ fs[x].k = "link" /\ x \in RecordedPlaces
                \/ /\ fs[x].k = "dir"
                   /\ Children(fs, x) \subseteq Removed
                   /\ StrictlyBelow(LibRoot, x)]_vars

\* C9, amended: the unlink pass removes only symlinks at recorded paths and
\* directories that are empty when removed and are ancestors of a recorded
\* path, the project root and the directories above it included; never a
\* regular file or a non-empty directory. Nothing else changes.
C9_RemovesOnlyEmptyAncestors ==
    [][UnlinkStep =>
          /\ \A x \in DOMAIN fs' : x \in DOMAIN fs /\ fs'[x] = fs[x]
          /\ \A x \in Removed :
                \/ fs[x].k = "link" /\ x \in RecordedPlaces
                \/ /\ fs[x].k = "dir"
                   /\ Children(fs, x) \subseteq Removed
                   /\ x \in RecordedAncestors]_vars

\* An unlink pass has removed a recorded symlink and, with it, the project
\* root and the directory above it, which it left empty.
C9_RootRemoved ==
    /\ pc = "link"
    /\ run = 2
    /\ IsDirAt(before, LibRoot)
    /\ IsLinkAt(before, Join(LibRoot, ToA))
    /\ ~ExistsAt(fs, Join(LibRoot, ToA))
    /\ ~ExistsAt(fs, LibRoot)
    /\ ~ExistsAt(fs, Dirname(LibRoot))

\* ------------------------------------------------ the link pass run twice
\* _do_link() called twice in a row, with the same configuration, on a
\* project root that is empty (with the checkout fetched or not), that holds
\* a regular file at a, or that holds at a a symlink to the storage root.
FileAtA == Put(FetchedFs, Join(LibRoot, ToA), FileE)
LinkAtA == Put(FetchedFs, Join(LibRoot, ToA), LinkE(ExtAbs))
TwiceWorlds == {BaseFs, FetchedFs, FileAtA, LinkAtA}

InitTwice ==
    \E f \in TwiceWorlds : \E links \in LinkLists :
        InitState("first", LinkArgs, <<LinkLib(links)>>, f)

\* The body shared by the two passes
LinkPassStep(r) ==
    /\ fs' = r.fs
    /\ linkinfo' = r.li
    /\ out' = out \o r.out
    /\ raised' = r.raised
    /\ linked' = (r.raised = "none")
    /\ made' = made \cup r.made

LinkOnce ==
    /\ pc = "first"
    /\ \E r \in {LinkPass(args, config, fs, cwd, linkinfo)} :
          /\ LinkPassStep(r)
          /\ first' = [fs |-> r.fs, raised |-> r.raised]
    /\ pc' = "second"
    /\ UNCHANGED <<run, args, config, loaded, cwd, disk, updLog, net, writes, before,
                   key, name>>

LinkAgain ==
    /\ pc = "second"
    /\ \E r \in {LinkPass(args, config, fs, cwd, linkinfo)} : LinkPassStep(r)
    /\ pc' = "twice"
    /\ UNCHANGED <<run, args, config, loaded, cwd, disk, updLog, net, writes, before,
                   first, key, name>>

NextTwice == LinkOnce \/ LinkAgain

SpecTwice == InitTwice /\ [][NextTwice]_vars

\* The symlinks of a file system: where they are and what they point to
Symlinks(f) == {<<x, f[x].t>> : x \in {y \in DOMAIN f : f[y].k = "link"}}

\* C2: for every configuration and every initial file system, after the link
\* pass has run twice in a row with the same configuration the symlinks are
\* those the first pass left (same destinations, same targets), and the
\* second pass has raised no error.
C2_LinkPassIdempotent ==
    pc = "twice" =>
        /\ Symlinks(fs) = Symlinks(first.fs)
        /\ raised = "none"

====
